---- MODULE Spec2Model ----
(***************************************************************************)
(* A model of the mdrp-sim delivery simulator: the Courier actor of        *)
(* src/actors/courier.py, the greedy matching policy of                    *)
(* src/policies/dispatcher/matching/greedy.py, the routing client of       *)
(* src/services/osrm_service.py, the movement policy of                    *)
(* src/policies/courier/movement/osrm_dynamic.py, the demand management    *)
(* policies of src/policies/dispatcher/demand_management and               *)
(* World._new_users_procedure and World.post_process of                    *)
(* src/actors/world.py.                                                    *)
(*                                                                         *)
(* Virtual time is the integer `now` (simpy's env.now).  A process is a    *)
(* record waiting for the time `wake`; a step runs the code of a process   *)
(* from the timeout it waited for up to the next timeout it yields.        *)
(* Starting a process (env.process) is an URGENT event of simpy, served    *)
(* before any timeout of the same instant: the processes a handler starts  *)
(* and leaves running wait in the queue `urgent` and start, in order, in   *)
(* the next steps.  A process that is started and waited for at once       *)
(* (yield env.process(...)) runs within the step of its caller, and an     *)
(* interrupt takes effect at once.  Events due at the same instant are     *)
(* served in the order they were scheduled in: `eid` numbers the events as *)
(* simpy's env._eid does, and a waiting process keeps the number `seq` of  *)
(* the timeout it waits for.                                               *)
(*                                                                         *)
(* The Dispatcher and User actors, the acceptance policies, the movement   *)
(* evaluation policies and the settings are not among the source files;    *)
(* what the model needs of them follows the specification document and is  *)
(* marked as such.                                                         *)
(***************************************************************************)
EXTENDS Integers, Sequences, FiniteSets, TLC

(***************************************************************************)
(* Bounds of the model                                                     *)
(***************************************************************************)
MaxTime == 5        \* idle loops are not re-armed and nothing is dispatched after it
MaxDelay == 1       \* longest delay of the acceptance policy
MaxNotifs == 3      \* notifications the dispatcher sends in a run
MaxRelocs == 1      \* relocation moves a courier decides on in a run
MaxLoc == 1         \* locations are the points 0..MaxLoc of a line

(***************************************************************************)
(* Program constants                                                       *)
(***************************************************************************)
COURIER_WAIT_TO_MOVE == 2
DISPATCHER_PROSPECTS_MAX_DISTANCE == 1
USER_WAIT_TO_CANCEL(o) == IF o = 1 THEN 3 ELSE 5
SIMULATE_FROM == 0
COURIER_EARNINGS_PER_ORDER == 3
COURIER_EARNINGS_PER_HOUR == 3600   \* a multiple of 3600: whole seconds earn whole amounts
WARM_UP_TIME == 5

CourierIds == {1, 2}
OrderIds == {1, 2}
Locations == 0..MaxLoc

Abs(x) == IF x < 0 THEN -x ELSE x
Max(a, b) == IF a > b THEN a ELSE b

\* haversine on the line of locations
haversine(a, b) == Abs(a - b)

(***************************************************************************)
(* Domain objects                                                          *)
(***************************************************************************)
\* The orders of the run (rows of the data source).
Order(o) ==
    [order_id |-> o,
     pick_up_at |-> IF o = 1 THEN 1 ELSE 0,
     drop_off_at |-> IF o = 1 THEN 0 ELSE 1,
     placement_time |-> 0,
     ready_time |-> IF o = 1 THEN 0 ELSE 1,
     pick_up_service_time |-> IF o = 1 THEN 2 ELSE 4,
     drop_off_service_time |-> 1]

\* A stop of a single-order route; active_stop = None is NoStop.
Stop(o, t) == [order |-> o, type |-> t]
NoStop == [order |-> 0, type |-> "NONE"]

\* The stop of a prepositioning: it carries no order, and `order` holds the
\* location it is at.
PrepositionStop(location) == [order |-> location, type |-> "PREPOSITION"]

StopLocation(s) ==
    CASE s.type = "PICK_UP" -> Order(s.order).pick_up_at
      [] s.type = "PREPOSITION" -> s.order
      [] OTHER -> Order(s.order).drop_off_at

\* The single-order Route [PICK_UP, DROP_OFF]; active_route = None is NoRoute.
Route(o) == << Stop(o, "PICK_UP"), Stop(o, "DROP_OFF") >>
NoRoute == << >>

\* Processes.  An idle process (_idle_state) is "start" (not started yet),
\* "timeout" (waiting COURIER_WAIT_TO_MOVE) or "moving" (waiting for the
\* relocation it started);
\* loop = FALSE is a relocation whose idle process was interrupted while it
\* waited for it.  DeadProcess is a process that has terminated.
\* A timestamp of an order that is None
NoTime == -1

\* The earnings of a courier that are None: no earnings were computed, and
\* guaranteed_compensation is None as well
NoEarnings == -1

DeadProcess == [pc |-> "dead", wake |-> 0, seq |-> 0, path |-> << >>, start |-> 0, loop |-> FALSE]

(***************************************************************************)
(* Routing client (src/services/osrm_service.py)                           *)
(***************************************************************************)
\* The steps of a route of the service: the points of the line from the
\* origin to the destination, a departure and an arrival at the least.
Polyline(origin, destination) ==
    IF origin = destination THEN << origin, destination >>
    ELSE [i \in 1..(Abs(destination - origin) + 1) |->
             IF destination > origin THEN origin + (i - 1) ELSE origin - (i - 1)]

\* What a request to the routing service yields, for each state of the
\* service: "ok" answers 200 with the steps from origin to destination;
\* "down" raises a transport error; "refused" answers 500; "partial" finds
\* no route into point 0 and answers 400 there, 200 elsewhere.
Response(kind, origin, destination) ==
    [raised |-> kind = "down",
     status |-> CASE kind = "refused" -> 500
                  [] kind = "partial" /\ destination = 0 -> 400
                  [] OTHER -> 200,
     json_ok |-> TRUE,
     steps |-> Polyline(origin, destination)]

\* The Route of the except branch.
DirectRoute(origin, destination) == [is_none |-> FALSE, stops |-> << origin, destination >>]

\* OSRMService.get_route: a falsy response (status >= 400) or a status other
\* than 200 and 204 leaves the try block without a return, that is None.
get_route(origin, destination, response) ==
    IF response.raised THEN DirectRoute(origin, destination)
    ELSE IF response.status < 400 /\ response.status \in {200, 204}
         THEN IF response.json_ok
              THEN [is_none |-> FALSE, stops |-> response.steps]
              ELSE DirectRoute(origin, destination)
         ELSE [is_none |-> TRUE, stops |-> << >>]

\* int(distance / velocity)
LegTime(a, b, velocity) == haversine(a, b) \div velocity

RECURSIVE SumLegs(_, _, _)
SumLegs(stops, velocity, ix) ==
    IF ix >= Len(stops) THEN [distance |-> 0, time |-> 0]
    ELSE LET rest == SumLegs(stops, velocity, ix + 1)
         IN [distance |-> haversine(stops[ix], stops[ix + 1]) + rest.distance,
             time |-> LegTime(stops[ix], stops[ix + 1], velocity) + rest.time]

\* OSRMService.estimate_travelling_properties: get_route does not raise, and a
\* None route raises at len(travelling_route.stops), outside the try block.
estimate_travelling_properties(origin, destination, velocity, kind) ==
    LET travelling_route == get_route(origin, destination, Response(kind, origin, destination))
    IN IF travelling_route.is_none
       THEN [raised |-> TRUE, distance |-> 0, time |-> 0]
       ELSE LET sum == SumLegs(travelling_route.stops, velocity, 1)
            IN [raised |-> FALSE, distance |-> sum.distance, time |-> sum.time]

\* OSRMService.estimate_route_properties: the loop is inside one try block, so
\* the first leg that raises ends the accumulation.
RECURSIVE EstimateLegs(_, _, _, _)
EstimateLegs(stops, velocity, kind, ix) ==
    IF ix >= Len(stops) THEN [distance |-> 0, time |-> 0]
    ELSE LET leg == estimate_travelling_properties(stops[ix], stops[ix + 1], velocity, kind)
         IN IF leg.raised THEN [distance |-> 0, time |-> 0]
            ELSE LET rest == EstimateLegs(stops, velocity, kind, ix + 1)
                 IN [distance |-> leg.distance + rest.distance, time |-> leg.time + rest.time]

estimate_route_properties(origin, route_stops, velocity, kind) ==
    EstimateLegs(<< origin >> \o route_stops, velocity, kind, 1)

(***************************************************************************)
(* Greedy matching (src/policies/dispatcher/matching/greedy.py)            *)
(* Orders and couriers are sequences of records; indices start at 1.       *)
(***************************************************************************)
\* idle_couriers of execute
IdleCouriers(couriers) ==
    SelectSeq(couriers, LAMBDA c : c.condition = "idle" /\ c.active_route = NoRoute)

\* _get_prospects: the pairs (order_ix, courier_ix) in order of enumeration
RECURSIVE ProspectsFrom(_, _, _, _)
ProspectsFrom(orders, couriers, order_ix, courier_ix) ==
    IF order_ix > Len(orders) THEN << >>
    ELSE IF courier_ix > Len(couriers) THEN ProspectsFrom(orders, couriers, order_ix + 1, 1)
    ELSE LET distance_to_pick_up ==
                 haversine(couriers[courier_ix].location, orders[order_ix].pick_up_at)
             rest == ProspectsFrom(orders, couriers, order_ix, courier_ix + 1)
         IN IF distance_to_pick_up <= DISPATCHER_PROSPECTS_MAX_DISTANCE
            THEN << << order_ix, courier_ix >> >> \o rest
            ELSE rest

get_prospects(orders, couriers) == ProspectsFrom(orders, couriers, 1, 1)

\* _get_estimations: the time of each prospect
get_estimations(orders, couriers, prospects, kind) ==
    [ix \in 1..Len(prospects) |->
        LET order == orders[prospects[ix][1]]
            c == couriers[prospects[ix][2]]
        IN estimate_route_properties(
               c.location, << order.pick_up_at, order.drop_off_at >>, c.velocity, kind).time
           + (order.pick_up_service_time + order.drop_off_service_time)]

\* The instruction with a slip: the stops are in the opposite order.
Instruction_swapped(order) ==
    [orders |-> {order.order_id},
     stops |-> << [location |-> order.drop_off_at, orders |-> {order.order_id},
                   position |-> 0, type |-> "DROP_OFF", visited |-> FALSE],
                  [location |-> order.pick_up_at, orders |-> {order.order_id},
                   position |-> 1, type |-> "PICK_UP", visited |-> FALSE] >>]

\* The instruction of a notification: Route(orders=..., stops=[Stop(...), Stop(...)])
Instruction(order) ==
    [orders |-> {order.order_id},
     stops |-> << [location |-> order.pick_up_at, orders |-> {order.order_id},
                   position |-> 0, type |-> "PICK_UP", visited |-> FALSE],
                  [location |-> order.drop_off_at, orders |-> {order.order_id},
                   position |-> 1, type |-> "DROP_OFF", visited |-> FALSE] >>]

\* The courier a notification is addressed to: couriers[selected_prospect[1]],
\* the index of a prospect taken in the list `couriers` the policy was given.
NotifiedCourier(couriers, idle_couriers, courier_ix) == couriers[courier_ix]

\* The loop of execute with a slip: the selected courier is not added to
\* notified_couriers.
RECURSIVE MatchFrom_unmarked(_, _, _, _, _, _)
MatchFrom_unmarked(orders, couriers, prospects, estimations, order_ix, notified_couriers) ==
    IF order_ix > Len(orders) THEN << >>
    ELSE LET mask == { ix \in 1..Len(prospects) :
                         /\ prospects[ix][1] = order_ix
                         /\ prospects[ix][2] \notin notified_couriers }
         IN IF mask = {}
            THEN MatchFrom_unmarked(orders, couriers, prospects, estimations, order_ix + 1,
                                    notified_couriers)
            ELSE LET selected == CHOOSE ix \in mask :
                                     \A jx \in mask :
                                        \/ estimations[ix] < estimations[jx]
                                        \/ estimations[ix] = estimations[jx] /\ ix <= jx
                 IN << [courier |-> NotifiedCourier(couriers, IdleCouriers(couriers),
                                                    prospects[selected][2]),
                        type |-> "PICK_UP_DROP_OFF",
                        instruction |-> Instruction(orders[order_ix]),
                        order |-> orders[order_ix]] >>
                    \o MatchFrom_unmarked(orders, couriers, prospects, estimations,
                                          order_ix + 1, notified_couriers)

\* The loop of execute over the orders; notified_couriers holds prospect indices.
RECURSIVE MatchFrom(_, _, _, _, _, _)
MatchFrom(orders, couriers, prospects, estimations, order_ix, notified_couriers) ==
    IF order_ix > Len(orders) THEN << >>
    ELSE LET mask == { ix \in 1..Len(prospects) :
                         /\ prospects[ix][1] = order_ix
                         /\ prospects[ix][2] \notin notified_couriers }
         IN IF mask = {}
            THEN MatchFrom(orders, couriers, prospects, estimations, order_ix + 1, notified_couriers)
            ELSE LET min_time == CHOOSE t \in { estimations[ix] : ix \in mask } :
                                     \A ix \in mask : t <= estimations[ix]
                     selected == CHOOSE ix \in mask :
                                     /\ estimations[ix] = min_time
                                     /\ \A jx \in mask : estimations[jx] = min_time => ix <= jx
                     selected_prospect == prospects[selected]
                 IN << [courier |-> NotifiedCourier(couriers, IdleCouriers(couriers),
                                                    selected_prospect[2]),
                        type |-> "PICK_UP_DROP_OFF",
                        instruction |-> Instruction(orders[order_ix]),
                        order |-> orders[order_ix]] >>
                    \o MatchFrom(orders, couriers, prospects, estimations, order_ix + 1,
                                 notified_couriers \cup { selected_prospect[2] })

\* GreedyMatchingPolicy.execute: the notifications it returns
execute(orders, couriers, kind) ==
    LET idle_couriers == IdleCouriers(couriers)
        prospects == get_prospects(orders, idle_couriers)
        estimations == get_estimations(orders, idle_couriers, prospects, kind)
    IN IF prospects # << >> /\ orders # << >> /\ idle_couriers # << >>
       THEN MatchFrom(orders, couriers, prospects, estimations, 1, {})
       ELSE << >>

\* The MatchingMetric of execute, without its wall-clock times
matching_metric(orders, couriers, notifications) ==
    [constraints |-> 0,
     couriers |-> Len(couriers),
     matches |-> Len(notifications),
     orders |-> Len(orders),
     routes |-> Len(orders),
     variables |-> 0]

VARIABLES now, eid, courier, dispatcher, visited, urgent, osrm, ended, crashed

vars == << now, eid, courier, dispatcher, visited, urgent, osrm, ended, crashed >>

(***************************************************************************)
(* The handlers below are functions of a record w of the state they read   *)
(* and write: w.c the couriers, w.d the dispatcher, w.v the visited stops, *)
(* w.u the processes to start, w.x whether an exception reached the        *)
(* scheduler, w.e the number of the next event, w.p the process that is    *)
(* running and w.alive whether it goes on waiting after the step.          *)
(***************************************************************************)
World(p) == [c |-> courier, d |-> dispatcher, v |-> visited, u |-> urgent, x |-> crashed,
             e |-> eid, p |-> p, alive |-> TRUE]

\* yield self.env.timeout(delay): the running process waits for a new event
timeout(w, delay) == [w EXCEPT !.p.wake = now + delay, !.p.seq = w.e, !.e = @ + 1]

\* env.process(...): a process of a courier to start
Process(id, kind) ==
    [id |-> id, kind |-> kind, n |-> 0, order |-> 0, delay |-> 0, type |-> "PICK_UP_DROP_OFF"]

(***************************************************************************)
(* Dispatcher callbacks (the Dispatcher is not among the source files)     *)
(***************************************************************************)
courier_idle_event(w, id) == [w EXCEPT !.d.registry[id] = "idle"]
courier_moving_event(w, id) == [w EXCEPT !.d.registry[id] = "moving"]
courier_picking_up_event(w, id) == [w EXCEPT !.d.registry[id] = "picking_up"]
courier_dropping_off_event(w, id) == [w EXCEPT !.d.registry[id] = "dropping_off"]
courier_log_off_event(w, id) == [w EXCEPT !.d.registry[id] = "logged_off"]
orders_in_store_event(w, o) == [w EXCEPT !.d.calls[o] = Append(@, "in_store")]
orders_picked_up_event(w, o) == [w EXCEPT !.d.calls[o] = Append(@, "picked_up")]
orders_dropped_off_event(w, o, id) ==
    [w EXCEPT !.d.calls[o] = Append(@, "dropped_off"),
              !.d.drop_off_time[o] = now,
              !.d.fulfilled_orders = @ \cup {o},
              !.c[id].fulfilled_orders = Append(@, o)]

\* An order that is still unassigned is canceled.
cancel_order_event(w, o) ==
    [w EXCEPT !.d.cancellation_time[o] = now,
              !.d.unassigned = @ \ {o},
              !.d.canceled_orders = @ \cup {o}]

\* On accept the instruction becomes the courier's active route, or is
\* appended to it; the order is scheduled and the offer is resolved.
\* A PREPOSITIONING notification holds a location in place of an order: the
\* destination is treated as a single PREPOSITION stop.
notification_accepted_event(w, n, id) ==
    IF n.type = "PREPOSITIONING"
    THEN [w EXCEPT !.d.answers[n.id].accepted = @ + 1,
                   !.d.notified = @ \ {id},
                   !.c[id].active_route = @ \o << PrepositionStop(n.order) >>]
    ELSE [w EXCEPT !.d.calls[n.order] = Append(@, "accepted"),
                   !.d.answers[n.id].accepted = @ + 1,
                   !.d.notified = @ \ {id},
                   !.c[id].active_route = @ \o Route(n.order)]

\* On reject the order returns to the unassigned pool and the offer is resolved.
notification_rejected_event(w, n, id) ==
    [w EXCEPT !.d.answers[n.id].rejected = @ + 1,
              !.d.notified = @ \ {id},
              !.d.unassigned = IF n.type = "PREPOSITIONING" THEN @ ELSE @ \cup {n.order}]

(***************************************************************************)
(* Courier (src/actors/courier.py)                                         *)
(***************************************************************************)
\* self.state.interrupt(): a terminated process raises RuntimeError, which the
\* callers swallow; an idle process leaves its loop at the Interrupt, and the
\* relocation it was waiting for goes on without it.
interrupt(cr) ==
    IF cr.state.pc = "dead" THEN cr
    ELSE IF cr.state.pc = "timeout" THEN [cr EXCEPT !.state = DeadProcess]
    ELSE [cr EXCEPT !.state = DeadProcess,
                    !.others = Append(@, [cr.state EXCEPT !.loop = FALSE])]

\* sec_to_hour(seconds) * rate, for a rate that is a multiple of 3600
sec_to_hour_times(seconds, rate) == (seconds * rate) \div 3600

\* _calculate_earnings with a slip: the guarantee is paid with no delivery too.
calculate_earnings_idle_paid(cr) ==
    LET delivery_earnings == Len(cr.fulfilled_orders) * COURIER_EARNINGS_PER_ORDER
        guaranteed_earnings ==
            sec_to_hour_times(cr.off_time - cr.on_time, COURIER_EARNINGS_PER_HOUR)
    IN IF guaranteed_earnings > delivery_earnings
       THEN [cr EXCEPT !.guaranteed_compensation = TRUE,
                       !.earnings = guaranteed_earnings,
                       !.earnings_runs = @ + 1]
       ELSE [cr EXCEPT !.guaranteed_compensation = FALSE,
                       !.earnings = delivery_earnings,
                       !.earnings_runs = @ + 1]

\* self.earnings = self._calculate_earnings()
calculate_earnings(cr) ==
    LET delivery_earnings == Len(cr.fulfilled_orders) * COURIER_EARNINGS_PER_ORDER
        guaranteed_earnings ==
            sec_to_hour_times(cr.off_time - cr.on_time, COURIER_EARNINGS_PER_HOUR)
    IN IF guaranteed_earnings > delivery_earnings /\ delivery_earnings > 0
       THEN [cr EXCEPT !.guaranteed_compensation = TRUE,
                       !.earnings = guaranteed_earnings,
                       !.earnings_runs = @ + 1]
       ELSE [cr EXCEPT !.guaranteed_compensation = FALSE,
                       !.earnings = delivery_earnings,
                       !.earnings_runs = @ + 1]

\* log_off_event with a slip: a log-off that is deferred sets the timer again.
log_off_event_rearmed(w, id) ==
    IF w.c[id].active_route = NoRoute /\ w.c[id].active_stop = NoStop
    THEN LET cr == interrupt(calculate_earnings(w.c[id]))
         IN courier_log_off_event(
                [w EXCEPT !.c[id] = [cr EXCEPT !.condition = "logged_off"]], id)
    ELSE [w EXCEPT !.c[id].log_off_scheduled = TRUE,
                   !.c[id].timer_fired = FALSE,
                   !.c[id].log_off_at = now + 1,
                   !.c[id].log_off_seq = w.e,
                   !.e = @ + 1]

\* log_off_event
log_off_event(w, id) ==
    IF w.c[id].active_route = NoRoute /\ w.c[id].active_stop = NoStop
    THEN LET cr == interrupt(calculate_earnings(w.c[id]))
         IN courier_log_off_event(
                [w EXCEPT !.c[id] = [cr EXCEPT !.condition = "logged_off"]], id)
    ELSE [w EXCEPT !.c[id].log_off_scheduled = TRUE]

\* self.state = self.env.process(self._idle_state()): a process the handle
\* referred to and that is still alive goes on unreferenced.
start_idle_state(w, id) ==
    LET old == w.c[id].state
    IN [w EXCEPT !.c[id].others = IF old.pc = "dead" THEN @ ELSE Append(@, old),
                 !.c[id].state = [pc |-> "start", wake |-> now, seq |-> 0, path |-> << >>,
                                  start |-> 0, loop |-> TRUE],
                 !.u = Append(@, Process(id, "idle"))]

\* _idle_state up to its first timeout
idle_state(w, id) ==
    courier_idle_event(
        [w EXCEPT !.c[id].condition = "idle",
                  !.c[id].state = [pc |-> "timeout", wake |-> now + COURIER_WAIT_TO_MOVE,
                                   seq |-> w.e, path |-> << >>, start |-> 0, loop |-> TRUE],
                  !.e = @ + 1], id)

\* self.env.process(self._execute_active_route())
start_execute_active_route(w, id) == [w EXCEPT !.u = Append(@, Process(id, "route"))]

\* _moving_state up to the first timeout of OSRMDynamicMovementPolicy.execute:
\* a None route raises at route.stops.  The hours of the model have
\* speed_coeff 1.
begin_moving(w, id, destination) ==
    LET w1 == courier_moving_event([w EXCEPT !.c[id].condition = "moving"], id)
        origin == w.c[id].location
        route == get_route(origin, destination, Response(osrm, origin, destination))
    IN IF route.is_none
       THEN [w1 EXCEPT !.x = TRUE, !.alive = FALSE]
       ELSE timeout([w1 EXCEPT !.p.pc = "moving",
                               !.p.start = now,
                               !.p.path = Tail(route.stops)],
                    LegTime(route.stops[1], route.stops[2], w.c[id].velocity))

\* _picking_up_state with a slip: the ready time of the order is not waited for.
begin_picking_up_unready(w, id, stop) ==
    LET order == Order(stop.order)
        w1 == courier_picking_up_event([w EXCEPT !.c[id].condition = "picking_up"], id)
        w2 == orders_in_store_event(w1, stop.order)
    IN timeout([w2 EXCEPT !.p.pc = "picking_up", !.p.start = now],
               order.pick_up_service_time)

\* _picking_up_state up to its timeout
begin_picking_up(w, id, stop) ==
    LET order == Order(stop.order)
        w1 == courier_picking_up_event([w EXCEPT !.c[id].condition = "picking_up"], id)
        w2 == orders_in_store_event(w1, stop.order)
        waiting_time == order.ready_time - now
    IN timeout([w2 EXCEPT !.p.pc = "picking_up", !.p.start = now],
               order.pick_up_service_time + Max(0, waiting_time))

\* _dropping_off_state up to its timeout
begin_dropping_off(w, id, stop) ==
    LET w1 == courier_dropping_off_event([w EXCEPT !.c[id].condition = "dropping_off"], id)
    IN timeout([w1 EXCEPT !.p.pc = "dropping_off", !.p.start = now],
               Order(stop.order).drop_off_service_time)

\* _execute_stop up to the timeout of the service state
execute_stop(w, id, stop) ==
    LET w1 == [w EXCEPT !.c[id].active_stop = stop]
    IN IF stop.type = "PICK_UP" THEN begin_picking_up(w1, id, stop)
       ELSE begin_dropping_off(w1, id, stop)

\* The end of _execute_active_route with a slip: log_off_scheduled is not
\* looked at and the courier idles again.
finish_route_idles(w, id) ==
    start_idle_state([w EXCEPT !.c[id].active_route = NoRoute,
                               !.c[id].active_stop = NoStop,
                               !.alive = FALSE], id)

\* The end of _execute_active_route, after the loop
finish_route(w, id) ==
    LET w1 == [w EXCEPT !.c[id].active_route = NoRoute,
                        !.c[id].active_stop = NoStop,
                        !.alive = FALSE]
    IN IF w1.c[id].log_off_scheduled THEN log_off_event(w1, id) ELSE start_idle_state(w1, id)

\* The loop of _execute_active_route from stop w.p.i of stops_remaining, up to
\* the next timeout
\* The loop with a slip: every stop is served.
served_always(stop) == TRUE

\* if stop.type != StopType.PREPOSITION: the stops that are served
served(stop) == stop.type # "PREPOSITION"

RECURSIVE route_loop(_, _)
route_loop(w, id) ==
    IF w.p.i > Len(w.p.stops) THEN finish_route(w, id)
    ELSE LET stop == w.p.stops[w.p.i]
         IN IF w.c[id].active_stop # stop
            THEN begin_moving(w, id, StopLocation(stop))
            ELSE IF served(stop)
                 THEN execute_stop(w, id, stop)
                 ELSE route_loop([w EXCEPT !.p.i = @ + 1], id)

\* _execute_active_route up to its first timeout: with no active route,
\* self.active_route.stops raises.
execute_active_route(w, id) ==
    IF w.c[id].active_route = NoRoute
    THEN [w EXCEPT !.x = TRUE]
    ELSE LET stops_remaining == SelectSeq(w.c[id].active_route, LAMBDA s : s \notin w.v)
             w1 == route_loop([w EXCEPT !.p = [pc |-> "start", wake |-> now, seq |-> 0,
                                                path |-> << >>, start |-> now,
                                                stops |-> stops_remaining, i |-> 1],
                                         !.alive = TRUE], id)
         IN IF w1.alive THEN [w1 EXCEPT !.c[id].execs = Append(@, w1.p)] ELSE w1

\* One leg of the movement policy ends: courier.location = next_stop.location
end_leg(w, id) == [w EXCEPT !.c[id].location = Head(w.p.path), !.p.path = Tail(w.p.path)]

\* The next leg of the movement policy, when there is one
next_leg(w, id) ==
    timeout(w, LegTime(w.c[id].location, Head(w.p.path), w.c[id].velocity))

\* self.utilization_time += time_diff(now, state_start), at the end of a state
add_utilization(w, id) == [w EXCEPT !.c[id].utilization_time = @ + (now - w.p.start)]

\* A process of _execute_active_route resumes at the end of its timeout and
\* runs up to its next one.
resume_route(w, id) ==
    LET stop == w.p.stops[w.p.i]
    IN CASE w.p.pc = "moving" ->
              LET w1 == end_leg(w, id)
              IN IF w1.p.path # << >> THEN next_leg(w1, id)
                 ELSE LET w2 == add_utilization(w1, id)
                      IN IF served(stop)
                         THEN execute_stop(w2, id, stop)
                         ELSE route_loop([w2 EXCEPT !.p.i = @ + 1], id)
         [] w.p.pc = "picking_up" ->
              LET w1 == orders_picked_up_event(add_utilization(w, id), stop.order)
              IN route_loop([w1 EXCEPT !.v = @ \cup {stop}, !.p.i = @ + 1], id)
         [] w.p.pc = "dropping_off" ->
              LET w1 == orders_dropped_off_event(add_utilization(w, id), stop.order, id)
              IN route_loop([w1 EXCEPT !.v = @ \cup {stop}, !.p.i = @ + 1], id)

\* The loop of _idle_state waits again
idle_timeout(w) ==
    timeout([w EXCEPT !.p.pc = "timeout", !.p.path = << >>, !.p.start = 0], COURIER_WAIT_TO_MOVE)

\* An idle process resumes at the end of COURIER_WAIT_TO_MOVE and runs
\* _evaluate_movement_event with the destination the policy decided on
\* (destination = location stands for None).
resume_idle(w, id, destination) ==
    IF destination = w.c[id].location THEN idle_timeout(w)
    ELSE begin_moving([w EXCEPT !.c[id].relocations = @ + 1], id, destination)

\* A relocation resumes at the end of a leg; at its end _evaluate_movement_event
\* makes the courier idle, and the idle process, if it is still waiting for
\* it, loops.
resume_relocation(w, id) ==
    LET w1 == end_leg(w, id)
    IN IF w1.p.path # << >> THEN next_leg(w1, id)
       ELSE LET w2 == courier_idle_event(
                          [add_utilization(w1, id) EXCEPT !.c[id].condition = "idle"], id)
            IN IF w2.p.loop THEN idle_timeout(w2) ELSE [w2 EXCEPT !.alive = FALSE]

\* notification_event up to the timeout of the acceptance policy
notification_event(w, n, id, delay) ==
    LET cr == IF w.c[id].condition \in {"idle", "picking_up"}
              THEN interrupt(w.c[id]) ELSE w.c[id]
    IN [w EXCEPT !.c[id] = [cr EXCEPT !.notifications =
                                @ \cup {[id |-> n.id, order |-> n.order, type |-> n.type,
                                         wake |-> now + delay, seq |-> w.e]}],
                 !.e = @ + 1]

\* notification_event after the acceptance policy decided
AcceptBranch(w, n, id) ==
    LET w1 == notification_accepted_event(w, n, id)
    IN IF w1.c[id].active_route # NoRoute \/ n.type = "PREPOSITIONING"
       THEN start_execute_active_route(w1, id)
       ELSE start_idle_state(w1, id)

\* The reject branch with a slip: the dispatcher is told only in the two
\* conditions the branch goes on from.
RejectBranch_silent(w, n, id) ==
    IF w.c[id].condition = "idle" THEN start_idle_state(notification_rejected_event(w, n, id), id)
    ELSE IF w.c[id].condition = "picking_up"
         THEN start_execute_active_route(notification_rejected_event(w, n, id), id)
         ELSE w

RejectBranch(w, n, id) ==
    LET w1 == notification_rejected_event(w, n, id)
    IN IF w1.c[id].condition = "idle" THEN start_idle_state(w1, id)
       ELSE IF w1.c[id].condition = "picking_up" THEN start_execute_active_route(w1, id)
       ELSE w1

resolve_notification(w, n, id, accepts_notification) ==
    LET w1 == [w EXCEPT !.c[id].notifications = @ \ {n}]
        m == [id |-> n.id, order |-> n.order, type |-> n.type]
    IN IF accepts_notification THEN AcceptBranch(w1, m, id) ELSE RejectBranch(w1, m, id)

(***************************************************************************)
(* The run                                                                 *)
(***************************************************************************)
CourierList == << 1, 2 >>
OrderList == << 1, 2 >>
ShiftEnds == {3, 6}
ServiceStates == {"ok", "refused"}

\* Courier(...) and its __post_init__: the log-off is scheduled and the idle
\* process has started.
NewCourier(id, off) ==
    [courier_id |-> id,
     condition |-> "idle",
     active_route |-> NoRoute,
     active_stop |-> NoStop,
     log_off_scheduled |-> FALSE,
     location |-> IF id = 1 THEN 0 ELSE 1,
     velocity |-> 1,
     on_time |-> 0,
     off_time |-> off,
     utilization_time |-> 0,
     earnings |-> NoEarnings,
     guaranteed_compensation |-> FALSE,
     earnings_runs |-> 0,
     fulfilled_orders |-> << >>,
     relocations |-> 0,
     log_off_at |-> off,
     log_off_seq |-> id,
     timer_fired |-> FALSE,
     state |-> [pc |-> "timeout", wake |-> COURIER_WAIT_TO_MOVE,
                seq |-> Cardinality(CourierIds) + id, path |-> << >>,
                start |-> 0, loop |-> TRUE],
     others |-> << >>,
     execs |-> << >>,
     notifications |-> {}]

Init ==
    /\ now = 0
    /\ eid = 2 * Cardinality(CourierIds) + 1
    /\ \E off \in [CourierIds -> ShiftEnds] :
           courier = [id \in CourierIds |-> NewCourier(id, off[id])]
    /\ dispatcher = [unassigned |-> OrderIds,
                     notified |-> {},
                     registry |-> [id \in CourierIds |-> "idle"],
                     calls |-> [o \in OrderIds |-> << >>],
                     answers |-> << >>,
                     drop_off_time |-> [o \in OrderIds |-> NoTime],
                     cancellation_time |-> [o \in OrderIds |-> NoTime],
                     fulfilled_orders |-> {},
                     canceled_orders |-> {}]
    /\ visited = {}
    /\ urgent = << >>
    /\ osrm \in ServiceStates
    /\ ended = FALSE
    /\ crashed = FALSE

Running == ~ended /\ ~crashed

\* No process is waiting to start: the scheduler takes a timeout or a timer.
Settled == Running /\ urgent = << >>

Set(w) ==
    /\ courier' = w.c
    /\ dispatcher' = w.d
    /\ visited' = w.v
    /\ urgent' = w.u
    /\ crashed' = w.x
    /\ eid' = w.e

Remove(seq, k) == SubSeq(seq, 1, k - 1) \o SubSeq(seq, k + 1, Len(seq))

\* The events the processes and timers of a courier wait for: time and number
Events(cr) ==
    (IF cr.state.pc = "dead" THEN {} ELSE {<< cr.state.wake, cr.state.seq >>})
    \cup { << cr.others[k].wake, cr.others[k].seq >> : k \in 1..Len(cr.others) }
    \cup { << cr.execs[k].wake, cr.execs[k].seq >> : k \in 1..Len(cr.execs) }
    \cup { << n.wake, n.seq >> : n \in cr.notifications }
    \cup (IF cr.timer_fired THEN {} ELSE {<< cr.log_off_at, cr.log_off_seq >>})

AllEvents == UNION { Events(courier[id]) : id \in CourierIds }

AllWakes == { ev[1] : ev \in AllEvents }

\* The event the scheduler pops next: the earliest, and of those the one
\* scheduled first.
IsNext(wake, seq) ==
    /\ wake = now
    /\ \A ev \in AllEvents : ev[1] > wake \/ (ev[1] = wake /\ ev[2] >= seq)

\* A courier has more to do than to wait in its idle loop.
Busy(cr) ==
    \/ cr.execs # << >>
    \/ cr.notifications # {}
    \/ ~cr.timer_fired
    \/ cr.state.pc = "moving"
    \/ \E k \in 1..Len(cr.others) : cr.others[k].pc = "moving"

\* The scheduler takes the next event: time advances to it.
AdvanceTime ==
    /\ Settled
    /\ AllWakes # {}
    /\ \A t \in AllWakes : t > now
    /\ LET next == CHOOSE t \in AllWakes : \A u \in AllWakes : t <= u
       IN /\ next <= MaxTime \/ \E id \in CourierIds : Busy(courier[id])
          /\ now' = next
    /\ UNCHANGED << eid, courier, dispatcher, visited, urgent, osrm, ended, crashed >>

\* _log_off_callback: the log-off timer of a courier fires.
LogOffTimer(id) ==
    /\ Settled
    /\ ~courier[id].timer_fired
    /\ IsNext(courier[id].log_off_at, courier[id].log_off_seq)
    /\ Set(log_off_event([World(DeadProcess) EXCEPT !.c[id].timer_fired = TRUE], id))
    /\ UNCHANGED << now, osrm, ended >>

\* The idle process self.state refers to ends a timeout.
IdleStep(id) ==
    /\ Settled
    /\ courier[id].state.pc # "dead"
    /\ IsNext(courier[id].state.wake, courier[id].state.seq)
    /\ \E destination \in Locations :
          /\ destination # courier[id].location => courier[id].relocations < MaxRelocs
          /\ LET w == IF courier[id].state.pc = "timeout"
                      THEN resume_idle(World(courier[id].state), id, destination)
                      ELSE resume_relocation(World(courier[id].state), id)
             IN Set(IF w.alive THEN [w EXCEPT !.c[id].state = w.p]
                    ELSE [w EXCEPT !.c[id].state = DeadProcess])
    /\ UNCHANGED << now, osrm, ended >>

\* An idle process or a relocation that no handle refers to ends a timeout.
OtherStep(id, k) ==
    /\ Settled
    /\ k \in 1..Len(courier[id].others)
    /\ IsNext(courier[id].others[k].wake, courier[id].others[k].seq)
    /\ \E destination \in Locations :
          /\ destination # courier[id].location => courier[id].relocations < MaxRelocs
          /\ LET p == courier[id].others[k]
                 w == IF p.pc = "timeout" THEN resume_idle(World(p), id, destination)
                      ELSE resume_relocation(World(p), id)
             IN Set(IF w.alive THEN [w EXCEPT !.c[id].others[k] = w.p]
                    ELSE [w EXCEPT !.c[id].others = Remove(@, k)])
    /\ UNCHANGED << now, osrm, ended >>

\* A process of _execute_active_route ends a timeout.
RouteStep(id, k) ==
    /\ Settled
    /\ k \in 1..Len(courier[id].execs)
    /\ IsNext(courier[id].execs[k].wake, courier[id].execs[k].seq)
    /\ LET w == resume_route(World(courier[id].execs[k]), id)
       IN Set(IF w.alive THEN [w EXCEPT !.c[id].execs[k] = w.p]
              ELSE [w EXCEPT !.c[id].execs = Remove(@, k)])
    /\ UNCHANGED << now, osrm, ended >>

\* The acceptance policy of a notification decides.
Resolve(id) ==
    /\ Settled
    /\ \E n \in courier[id].notifications :
          /\ IsNext(n.wake, n.seq)
          /\ \E accepts_notification \in BOOLEAN :
                Set(resolve_notification(World(DeadProcess), n, id, accepts_notification))
    /\ UNCHANGED << now, osrm, ended >>

\* The couriers the dispatcher matches: those it has not logged off, without
\* the ones it is waiting for an answer from.
MatchedCouriers(d) == { id \in CourierIds : d.registry[id] # "logged_off" /\ id \notin d.notified }

\* The dispatcher sends the notifications of a matching: each order is offered
\* and each courier is notified (env.process(courier.notification_event(n))).
RECURSIVE SendFrom(_, _, _, _)
SendFrom(w, notifications, delays, ix) ==
    IF ix > Len(notifications) THEN w
    ELSE LET id == notifications[ix].courier.courier_id
             n == [id |-> Len(w.d.answers) + 1, order |-> notifications[ix].order.order_id]
             w1 == [w EXCEPT !.d.answers = Append(@, [accepted |-> 0, rejected |-> 0,
                                                      courier |-> id, sent |-> now,
                                                      type |-> "PICK_UP_DROP_OFF"]),
                             !.d.unassigned = @ \ {n.order},
                             !.d.notified = @ \cup {id}]
             w2 == [w1 EXCEPT !.u = Append(@, [Process(id, "notification") EXCEPT
                                                   !.n = n.id, !.order = n.order,
                                                   !.delay = delays[ix]])]
         IN SendFrom(w2, notifications, delays, ix + 1)

\* A matching tick of the dispatcher with the greedy policy.
Dispatch ==
    /\ Settled
    /\ now <= MaxTime
    /\ LET orders == [ix \in 1..Len(SelectSeq(OrderList, LAMBDA o : o \in dispatcher.unassigned))
                        |-> Order(SelectSeq(OrderList, LAMBDA o : o \in dispatcher.unassigned)[ix])]
           ids == SelectSeq(CourierList, LAMBDA id : id \in MatchedCouriers(dispatcher))
           couriers == [ix \in 1..Len(ids) |-> courier[ids[ix]]]
           notifications == execute(orders, couriers, osrm)
       IN /\ notifications # << >>
          /\ Len(dispatcher.answers) + Len(notifications) <= MaxNotifs
          /\ \E delays \in [1..Len(notifications) -> 0..MaxDelay] :
                Set(SendFrom(World(DeadProcess), notifications, delays, 1))
    /\ UNCHANGED << now, osrm, ended >>

\* The cancellation watcher of a user ends its wait and cancels the order,
\* which no courier was offered or which came back from a rejection.
Cancel(o) ==
    /\ Settled
    /\ now = Order(o).placement_time + USER_WAIT_TO_CANCEL(o)
    /\ o \in dispatcher.unassigned
    /\ Set(cancel_order_event(World(DeadProcess), o))
    /\ UNCHANGED << now, osrm, ended >>

\* World.post_process: the couriers of the dispatcher's idle registry are
\* logged off at the end of the simulation.
RECURSIVE ForceLogOff(_, _)
ForceLogOff(w, ix) ==
    IF ix > Len(CourierList) THEN w
    ELSE LET id == CourierList[ix]
         IN IF dispatcher.registry[id] = "idle"
            THEN ForceLogOff(log_off_event([w EXCEPT !.c[id].off_time = now], id), ix + 1)
            ELSE ForceLogOff(w, ix + 1)

\* The warm-up filter with a slip: the canceled orders are not looked at.
warm_up_filter_fulfilled_only(w) ==
    LET warm_up_time_start == SIMULATE_FROM + WARM_UP_TIME
    IN [w EXCEPT !.d.fulfilled_orders =
                     { o \in @ : ~(w.d.drop_off_time[o] < warm_up_time_start) }]

\* World.post_process: the orders canceled or dropped off before the end of
\* the warm-up leave their registries.
warm_up_filter(w) ==
    LET warm_up_time_start == SIMULATE_FROM + WARM_UP_TIME
    IN [w EXCEPT !.d.canceled_orders =
                     { o \in @ : ~(w.d.cancellation_time[o] < warm_up_time_start) },
                 !.d.fulfilled_orders =
                     { o \in @ : ~(w.d.drop_off_time[o] < warm_up_time_start) }]

post_process ==
    /\ Settled
    /\ \A t \in AllWakes : t > now
    /\ Set(warm_up_filter(ForceLogOff(World(DeadProcess), 1)))
    /\ ended' = TRUE
    /\ UNCHANGED << now, osrm >>

\* The scheduler starts the first of the processes to start.
Start ==
    /\ Running
    /\ urgent # << >>
    /\ LET q == Head(urgent)
           w == [World(DeadProcess) EXCEPT !.u = Tail(urgent)]
       IN Set(CASE q.kind = "idle" -> idle_state(w, q.id)
                [] q.kind = "route" -> execute_active_route(w, q.id)
                [] q.kind = "notification" ->
                       notification_event(w, [id |-> q.n, order |-> q.order, type |-> q.type],
                                          q.id, q.delay))
    /\ UNCHANGED << now, osrm, ended >>

Next ==
    \/ Start
    \/ AdvanceTime
    \/ \E id \in CourierIds : LogOffTimer(id)
    \/ \E id \in CourierIds : IdleStep(id)
    \/ \E id \in CourierIds : \E k \in 1..Len(courier[id].others) : OtherStep(id, k)
    \/ \E id \in CourierIds : \E k \in 1..Len(courier[id].execs) : RouteStep(id, k)
    \/ \E id \in CourierIds : Resolve(id)
    \/ Dispatch
    \/ \E o \in OrderIds : Cancel(o)
    \/ post_process

Spec == Init /\ [][Next]_vars

(***************************************************************************)
(* Properties of the courier and of the run                                *)
(***************************************************************************)
\* The processes of a kind that are waiting to start for a courier
Queued(id, kind) == { k \in 1..Len(urgent) : urgent[k].id = id /\ urgent[k].kind = kind }

\* C1: a courier that is logged off has no active route and no active stop.
LoggedOffHasNoWork ==
    \A id \in CourierIds :
        courier[id].condition = "logged_off" =>
            courier[id].active_route = NoRoute /\ courier[id].active_stop = NoStop

\* C2: a courier is never the target of two outstanding notifications, a
\* notification counting from the moment it is sent to the courier until the
\* courier answers it.
OneOutstandingNotification ==
    \A id \in CourierIds :
        Cardinality(courier[id].notifications) + Cardinality(Queued(id, "notification")) <= 1

\* A courier is inside the acceptance delay, still idle and with no route,
\* and a matching tick after the one that notified it has sent an offer to
\* another courier.
NotifiedCourierSkipped ==
    \E id \in CourierIds : \E n \in courier[id].notifications :
        /\ courier[id].condition = "idle"
        /\ courier[id].active_route = NoRoute
        /\ \E k \in 1..Len(dispatcher.answers) :
              /\ k > n.id
              /\ dispatcher.answers[k].sent > dispatcher.answers[n.id].sent
              /\ dispatcher.answers[k].courier # id

\* C3: a courier never has two _execute_active_route processes at a time.
SingleRouteExecution ==
    \A id \in CourierIds : Len(courier[id].execs) + Cardinality(Queued(id, "route")) <= 1

\* C4: the earnings of a courier are computed at most once, and exactly once
\* for a courier that is logged off.
EarningsOnce ==
    \A id \in CourierIds :
        /\ courier[id].earnings_runs <= 1
        /\ courier[id].condition = "logged_off" => courier[id].earnings_runs = 1

\* C5: the utilization time of a courier never exceeds off_time - on_time.
UtilizationWithinShift ==
    \A id \in CourierIds :
        courier[id].utilization_time <= courier[id].off_time - courier[id].on_time

\* The stage of an order that a callback reports
Stage(call) ==
    CASE call = "accepted" -> 1 [] call = "in_store" -> 2
      [] call = "picked_up" -> 3 [] call = "dropped_off" -> 4

\* C6: for each order the courier reports accepted, in store, picked up and
\* dropped off in that order: no report is followed by a report of an earlier
\* stage, and a drop-off is reported only after a pick-up was.
CallbacksInOrder ==
    \A o \in OrderIds :
        LET calls == dispatcher.calls[o]
        IN /\ \A i, j \in 1..Len(calls) : i < j => Stage(calls[i]) <= Stage(calls[j])
           /\ \A j \in 1..Len(calls) :
                 calls[j] = "dropped_off" => \E i \in 1..(j - 1) : calls[i] = "picked_up"

\* Steps and states of the log-off: the timer of a courier fires, the courier
\* has work, a route execution of the courier completes
TimerFires(id) == ~courier[id].timer_fired /\ courier'[id].timer_fired
HasWork(id) == courier[id].active_route # NoRoute \/ courier[id].active_stop # NoStop
RouteCompletes(id) == courier[id].active_route # NoRoute /\ courier'[id].active_route = NoRoute

\* C7: a log-off timer that fires while the courier has an active route or
\* stop only sets log_off_scheduled; the route execution that then completes
\* logs the courier off and starts no idle process; and until the courier is
\* logged off a route execution that will do so is running or about to start.
LogOffDeferral ==
    /\ [][\A id \in CourierIds :
            /\ TimerFires(id) /\ HasWork(id) =>
                  courier'[id] = [courier[id] EXCEPT !.timer_fired = TRUE,
                                                     !.log_off_scheduled = TRUE]
            /\ RouteCompletes(id) /\ courier[id].log_off_scheduled =>
                  /\ courier'[id].condition = "logged_off"
                  /\ courier'[id].earnings_runs = courier[id].earnings_runs + 1
                  /\ courier'[id].state.pc = "dead"
                  /\ urgent' = urgent]_vars
    /\ [](\A id \in CourierIds :
            courier[id].log_off_scheduled /\ courier[id].earnings_runs = 0 =>
               \/ courier[id].execs # << >>
               \/ Queued(id, "route") # {}
               \/ crashed)

\* A courier whose log-off was deferred delivered its order and is logged off.
DeferredLogOffDone ==
    \E id \in CourierIds :
        /\ courier[id].log_off_scheduled
        /\ courier[id].condition = "logged_off"
        /\ courier[id].fulfilled_orders # << >>
        /\ courier[id].execs = << >>

\* The step in which notification_event starts for a courier
NotificationStarts(id) ==
    /\ Running
    /\ urgent # << >>
    /\ Head(urgent).kind = "notification"
    /\ Head(urgent).id = id
    /\ urgent' = Tail(urgent)

\* C8: a notification that reaches a courier in condition idle or picking_up
\* interrupts the process running that state: no idle wait of the courier
\* goes on, and the process waiting in _picking_up_state is resumed.
NotificationInterruptsState ==
    [][\A id \in CourierIds :
          /\ NotificationStarts(id) /\ courier[id].condition = "idle" =>
                /\ courier'[id].state.pc # "timeout"
                /\ \A k \in 1..Len(courier'[id].others) : courier'[id].others[k].pc # "timeout"
          /\ NotificationStarts(id) /\ courier[id].condition = "picking_up" =>
                \A k \in 1..Len(courier[id].execs) :
                    courier[id].execs[k].pc = "picking_up" =>
                        courier'[id].execs[k] # courier[id].execs[k]]_vars

\* A notification is on its way to the courier or its acceptance policy runs
Outstanding(k) ==
    \/ \E id \in CourierIds : \E n \in courier[id].notifications : n.id = k
    \/ \E q \in 1..Len(urgent) : urgent[q].kind = "notification" /\ urgent[q].n = k

\* C9: every notification sent to a courier is answered exactly once: it has
\* no answer while its acceptance policy runs, and exactly one answer, accept
\* or reject, from then on.
ResolvedExactlyOnce ==
    \A k \in 1..Len(dispatcher.answers) :
        dispatcher.answers[k].accepted + dispatcher.answers[k].rejected
            = IF Outstanding(k) THEN 0 ELSE 1

\* A courier that logged off during the acceptance delay has then accepted,
\* and another notification of the run was rejected.
AnsweredAfterLogOff ==
    /\ \E k \in 1..Len(dispatcher.answers) :
          LET cr == courier[dispatcher.answers[k].courier]
          IN /\ ~Outstanding(k)
             /\ dispatcher.answers[k].accepted = 1
             /\ cr.condition = "logged_off"
             /\ cr.active_route # NoRoute
    /\ \E k \in 1..Len(dispatcher.answers) : dispatcher.answers[k].rejected = 1

\* C15: whatever the routing service answers, a move of a courier raises
\* nothing: no step in which a courier enters _moving_state ends with an
\* exception that reaches the scheduler.
MoveNeverFatal ==
    [][\A id \in CourierIds :
          (courier[id].condition # "moving" /\ courier'[id].condition = "moving")
             => ~crashed']_vars

\* C17: after post_process no fulfilled order was dropped off and no canceled
\* order was canceled before SIMULATE_FROM + WARM_UP_TIME, and every order
\* of the two registries with its time at or after that boundary is still in
\* its registry.
WarmUpFilter ==
    [][(~ended /\ ended') =>
          LET boundary == SIMULATE_FROM + WARM_UP_TIME
          IN /\ \A o \in dispatcher'.fulfilled_orders :
                   ~(dispatcher'.drop_off_time[o] < boundary)
             /\ \A o \in dispatcher'.canceled_orders :
                   ~(dispatcher'.cancellation_time[o] < boundary)
             /\ \A o \in dispatcher.fulfilled_orders :
                   dispatcher.drop_off_time[o] >= boundary
                      => o \in dispatcher'.fulfilled_orders
             /\ \A o \in dispatcher.canceled_orders :
                   dispatcher.cancellation_time[o] >= boundary
                      => o \in dispatcher'.canceled_orders]_vars

\* The run ended with an order dropped off before the boundary and an order
\* canceled before it out of the registries, or with one of each kept.
FilteredAtTheEnd ==
    /\ ended
    /\ \E o, p \in OrderIds :
          /\ o # p
          /\ dispatcher.drop_off_time[o] # NoTime
          /\ dispatcher.cancellation_time[p] # NoTime
          /\ (o \in dispatcher.fulfilled_orders)
                = (dispatcher.drop_off_time[o] >= SIMULATE_FROM + WARM_UP_TIME)
          /\ (p \in dispatcher.canceled_orders)
                = (dispatcher.cancellation_time[p] >= SIMULATE_FROM + WARM_UP_TIME)
          /\ (o \in dispatcher.fulfilled_orders) # (p \in dispatcher.canceled_orders)

\* C18: post_process logs off every courier of the dispatcher's idle
\* registry: after it the courier has condition logged_off, its earnings
\* are computed and its off_time is the time the simulation ended at.
IdleCouriersLoggedOffAtEnd ==
    [][(~ended /\ ended') =>
          \A id \in CourierIds :
             dispatcher.registry[id] = "idle" =>
                /\ courier'[id].condition = "logged_off"
                /\ courier'[id].earnings_runs >= 1
                /\ courier'[id].off_time = now]_vars

\* The wait of _picking_up_state entered at a time for an order
PickUpWait(order, entry) ==
    order.pick_up_service_time + Max(0, order.ready_time - entry)

\* A step in which a courier enters _picking_up_state: the process at k
\* after the step waits in it for an event scheduled in the step
PickUpBegins(id, k) ==
    /\ k \in 1..Len(courier'[id].execs)
    /\ courier'[id].execs[k].pc = "picking_up"
    /\ courier'[id].execs[k].seq >= eid
    /\ courier'[id].execs[k].seq < eid'

\* A step in which the process at k, waiting in _picking_up_state, resumes
PickUpEnds(id, k) ==
    /\ Settled
    /\ k \in 1..Len(courier[id].execs)
    /\ courier[id].execs[k].pc = "picking_up"
    /\ IsNext(courier[id].execs[k].wake, courier[id].execs[k].seq)
    /\ courier'[id] # courier[id]

\* C19: on entry _picking_up_state sets condition picking_up and reports
\* courier_picking_up and orders_in_store; it reports orders_picked_up
\* max(pick_up_service_time) + max(0, max(ready_time) - entry) after the
\* entry, never before the ready time, and utilization_time grows by that
\* wait.
PickUpTiming ==
    [][\A id \in CourierIds :
          /\ \A k \in 1..Len(courier'[id].execs) :
                PickUpBegins(id, k) =>
                   LET p == courier'[id].execs[k]
                       o == p.stops[p.i].order
                   IN /\ courier'[id].condition = "picking_up"
                      /\ dispatcher'.registry[id] = "picking_up"
                      /\ dispatcher'.calls[o] = Append(dispatcher.calls[o], "in_store")
                      /\ p.start = now
                      /\ p.wake = now + PickUpWait(Order(o), now)
          /\ \A k \in 1..Len(courier[id].execs) :
                PickUpEnds(id, k) =>
                   LET p == courier[id].execs[k]
                       o == p.stops[p.i].order
                   IN /\ now = p.start + PickUpWait(Order(o), p.start)
                      /\ now >= Order(o).ready_time
                      /\ dispatcher'.calls[o] = Append(dispatcher.calls[o], "picked_up")
                      /\ courier'[id].utilization_time
                            = courier[id].utilization_time + PickUpWait(Order(o), p.start)]_vars

\* An order was picked up by a courier that came to the store before the
\* order was ready and waited for it.
PickedUpAfterWaiting ==
    \E id \in CourierIds : \E o \in OrderIds :
       /\ Stop(o, "PICK_UP") \in visited
       /\ dispatcher.calls[o] = << "accepted", "in_store", "picked_up" >>
       /\ Order(o).ready_time > 0
       /\ now = Order(o).ready_time + Order(o).pick_up_service_time
       /\ courier[id].utilization_time = now
       /\ courier[id].active_stop = Stop(o, "PICK_UP")

\* C20: the earnings computed at a log-off are the guaranteed earnings,
\* hours of the shift times EARNINGS_PER_HOUR, with guaranteed_compensation
\* true, when guaranteed > delivery > 0 for delivery = fulfilled orders
\* times EARNINGS_PER_ORDER; otherwise they are the delivery earnings with
\* the flag false, 0 when nothing was delivered.
EarningsRule ==
    [][\A id \in CourierIds :
          courier'[id].earnings_runs > courier[id].earnings_runs =>
             LET c == courier'[id]
                 delivery == Len(c.fulfilled_orders) * COURIER_EARNINGS_PER_ORDER
                 guaranteed == ((c.off_time - c.on_time) * COURIER_EARNINGS_PER_HOUR) \div 3600
             IN /\ (guaranteed > delivery /\ delivery > 0)
                      => c.earnings = guaranteed /\ c.guaranteed_compensation
                /\ ~(guaranteed > delivery /\ delivery > 0)
                      => c.earnings = delivery /\ ~c.guaranteed_compensation
                /\ delivery = 0 => c.earnings = 0 /\ ~c.guaranteed_compensation]_vars

\* Of two couriers that logged off, one that delivered is paid the guarantee
\* and one that delivered nothing is paid nothing.
GuaranteePaidAndNotPaid ==
    \E id, jd \in CourierIds :
       /\ courier[id].condition = "logged_off"
       /\ courier[id].earnings_runs = 1
       /\ courier[id].fulfilled_orders # << >>
       /\ courier[id].guaranteed_compensation
       /\ courier[id].earnings > Len(courier[id].fulfilled_orders) * COURIER_EARNINGS_PER_ORDER
       /\ courier[jd].condition = "logged_off"
       /\ courier[jd].earnings_runs = 1
       /\ courier[jd].fulfilled_orders = << >>
       /\ courier[jd].earnings = 0
       /\ ~courier[jd].guaranteed_compensation

(***************************************************************************)
(* The greedy policy on its own: execute on every list of at most          *)
(* MaxCouriers couriers and every list of the orders.  In this             *)
(* specification `courier` is the list of couriers given to the policy and *)
(* `dispatcher` holds the orders given and the notifications returned.     *)
(***************************************************************************)
MaxCouriers == 3
MaxPlace == 2       \* couriers of the lists stand at the points 0..MaxPlace

Conditions == {"idle", "moving"}
Velocities == {1, 2}

\* A courier of a list: a courier that is moving may have a route.
ListedCourier(id, condition, location, velocity) ==
    [courier_id |-> id,
     condition |-> condition,
     active_route |-> IF condition = "moving" THEN Route(1) ELSE NoRoute,
     location |-> location,
     velocity |-> velocity]

OrderLists == { << >>, << Order(1) >>, << Order(2) >>,
                << Order(1), Order(2) >>, << Order(2), Order(1) >> }

InitGreedy ==
    /\ now = 0
    /\ eid = 0
    /\ \E n \in 1..MaxCouriers :
          \E cond \in [1..n -> Conditions], loc \in [1..n -> 0..MaxPlace],
             vel \in [1..n -> Velocities] :
             courier = [ix \in 1..n |-> ListedCourier(ix, cond[ix], loc[ix], vel[ix])]
    /\ \E orders \in OrderLists :
          dispatcher = [orders |-> orders, notifications |-> << >>,
                        metric |-> matching_metric(<< >>, << >>, << >>)]
    /\ visited = {}
    /\ urgent = << >>
    /\ osrm \in ServiceStates
    /\ ended = FALSE
    /\ crashed = FALSE

\* The dispatcher calls the policy once.
Match ==
    /\ ~ended
    /\ LET notifications == execute(dispatcher.orders, courier, osrm)
       IN dispatcher' = [dispatcher EXCEPT
                            !.notifications = notifications,
                            !.metric = matching_metric(dispatcher.orders, courier, notifications)]
    /\ ended' = TRUE
    /\ UNCHANGED << now, eid, courier, visited, urgent, osrm, crashed >>

NextGreedy == Match

SpecGreedy == InitGreedy /\ [][NextGreedy]_vars

\* The estimated time of a courier for an order: the route estimate plus the
\* service times.
EstimatedTime(order, cr) ==
    estimate_route_properties(cr.location, << order.pick_up_at, order.drop_off_at >>,
                              cr.velocity, osrm).time
    + order.pick_up_service_time + order.drop_off_service_time

\* The notifications returned for the orders before position order_ix, and
\* the one returned for the order at it
Before(order_ix) ==
    { k \in 1..Len(dispatcher.notifications) :
        \E jx \in 1..(order_ix - 1) : dispatcher.notifications[k].order = dispatcher.orders[jx] }
For(order_ix) ==
    { k \in 1..Len(dispatcher.notifications) :
        dispatcher.notifications[k].order = dispatcher.orders[order_ix] }

\* The candidates of an order: the positions in the list of the couriers that
\* are idle, within reach of the pick-up and not notified for an order
\* before it.
Candidates(order_ix) ==
    { ix \in 1..Len(courier) :
        /\ courier[ix].condition = "idle"
        /\ courier[ix].active_route = NoRoute
        /\ haversine(courier[ix].location, dispatcher.orders[order_ix].pick_up_at)
              <= DISPATCHER_PROSPECTS_MAX_DISTANCE
        /\ \A k \in Before(order_ix) :
              dispatcher.notifications[k].courier.courier_id # courier[ix].courier_id }

\* C10: the notification of each order goes to the candidate with the least
\* estimated time, the first of them in the list on a tie, and an order with
\* no candidate gets no notification.
GreedyPicksBestCandidate ==
    ended =>
        \A order_ix \in 1..Len(dispatcher.orders) :
            LET order == dispatcher.orders[order_ix]
                candidates == Candidates(order_ix)
            IN IF candidates = {}
               THEN For(order_ix) = {}
               ELSE LET best == CHOOSE ix \in candidates :
                                   \A jx \in candidates :
                                      \/ EstimatedTime(order, courier[ix])
                                            < EstimatedTime(order, courier[jx])
                                      \/ /\ EstimatedTime(order, courier[ix])
                                               = EstimatedTime(order, courier[jx])
                                         /\ ix <= jx
                    IN /\ Cardinality(For(order_ix)) = 1
                       /\ \A k \in For(order_ix) :
                             dispatcher.notifications[k].courier = courier[best]

\* C11: within one call of execute no two notifications carry the same order,
\* no two notifications go to the same courier, and the metric counts as
\* matches the number of notifications.
OneOfferPerOrderAndCourier ==
    ended =>
        /\ \A k, l \in 1..Len(dispatcher.notifications) :
              k # l =>
                 /\ dispatcher.notifications[k].order.order_id
                       # dispatcher.notifications[l].order.order_id
                 /\ dispatcher.notifications[k].instruction.orders
                       # dispatcher.notifications[l].instruction.orders
                 /\ dispatcher.notifications[k].courier.courier_id
                       # dispatcher.notifications[l].courier.courier_id
        /\ dispatcher.metric.matches = Len(dispatcher.notifications)

\* Two orders were offered in one call, to two couriers that are both
\* prospects of both orders.
TwoOffersInOneCall ==
    /\ ended
    /\ Len(dispatcher.notifications) = 2
    /\ dispatcher.metric.matches = 2
    /\ \A k \in 1..2 : \A order_ix \in 1..2 :
          haversine(dispatcher.notifications[k].courier.location,
                    dispatcher.orders[order_ix].pick_up_at)
             <= DISPATCHER_PROSPECTS_MAX_DISTANCE

\* C12: every notification of execute is a PICK_UP_DROP_OFF whose route holds
\* one order of the call and the two stops PICK_UP at the order's pick-up
\* (position 0) and DROP_OFF at its drop-off (position 1), unvisited and
\* carrying that order; so every PICK_UP stop has exactly one DROP_OFF stop of
\* its order after it in the route.
SingleOrderRoute ==
    ended =>
        \A k \in 1..Len(dispatcher.notifications) :
            LET n == dispatcher.notifications[k]
                stops == n.instruction.stops
            IN /\ n.type = "PICK_UP_DROP_OFF"
               /\ \E order_ix \in 1..Len(dispatcher.orders) :
                     LET order == dispatcher.orders[order_ix]
                     IN /\ n.instruction.orders = {order.order_id}
                        /\ stops =
                             << [location |-> order.pick_up_at, orders |-> {order.order_id},
                                 position |-> 0, type |-> "PICK_UP", visited |-> FALSE],
                                [location |-> order.drop_off_at, orders |-> {order.order_id},
                                 position |-> 1, type |-> "DROP_OFF", visited |-> FALSE] >>
               /\ \A i \in 1..Len(stops) :
                     stops[i].type = "PICK_UP" =>
                        Cardinality({ j \in (i + 1)..Len(stops) :
                                        /\ stops[j].type = "DROP_OFF"
                                        /\ stops[j].orders = stops[i].orders }) = 1

\* A notification was returned for an order whose pick-up and drop-off differ.
RouteEmitted ==
    /\ ended
    /\ \E k \in 1..Len(dispatcher.notifications) :
          LET stops == dispatcher.notifications[k].instruction.stops
          IN /\ Len(stops) = 2
             /\ stops[1].location # stops[2].location

(***************************************************************************)
(* The routing client on its own: get_route and estimate_route_properties  *)
(* on every origin, every route of at most MaxStops stops and every state  *)
(* of the service.  In this specification `dispatcher` holds the request   *)
(* and what the two operations returned.                                   *)
(***************************************************************************)
MaxStops == 2

RoutingStates == {"ok", "down", "refused", "partial"}
Places == 0..MaxPlace
Routes == UNION { [1..n -> Places] : n \in 1..MaxStops }

InitRouting ==
    /\ now = 0
    /\ eid = 0
    /\ courier = << >>
    /\ \E origin \in Places, stops \in Routes, velocity \in Velocities :
          dispatcher = [origin |-> origin, stops |-> stops, velocity |-> velocity,
                        requested |-> FALSE, route |-> DirectRoute(origin, origin),
                        estimated |-> FALSE, estimate |-> [distance |-> 0, time |-> 0]]
    /\ visited = {}
    /\ urgent = << >>
    /\ osrm \in RoutingStates
    /\ ended = FALSE
    /\ crashed = FALSE

\* A call of get_route from the origin to the first stop
GetRoute ==
    /\ ~dispatcher.requested
    /\ LET origin == dispatcher.origin
           destination == dispatcher.stops[1]
       IN dispatcher' = [dispatcher EXCEPT
              !.requested = TRUE,
              !.route = get_route(origin, destination, Response(osrm, origin, destination))]
    /\ UNCHANGED << now, eid, courier, visited, urgent, osrm, ended, crashed >>

\* A call of estimate_route_properties for the route from the origin
EstimateRoute ==
    /\ ~dispatcher.estimated
    /\ dispatcher' = [dispatcher EXCEPT
          !.estimated = TRUE,
          !.estimate = estimate_route_properties(dispatcher.origin, dispatcher.stops,
                                                 dispatcher.velocity, osrm)]
    /\ UNCHANGED << now, eid, courier, visited, urgent, osrm, ended, crashed >>

NextRouting == GetRoute \/ EstimateRoute

SpecRouting == InitRouting /\ [][NextRouting]_vars

\* C13: get_route always returns a Route: the steps the service returned when
\* it answered 200 or 204, and the two stops origin, destination on any other
\* outcome, a raised error or another status.
GetRouteReturnsRoute ==
    dispatcher.requested =>
        LET origin == dispatcher.origin
            destination == dispatcher.stops[1]
            response == Response(osrm, origin, destination)
        IN /\ ~dispatcher.route.is_none
           /\ dispatcher.route.stops =
                 IF ~response.raised /\ response.status \in {200, 204}
                 THEN response.steps
                 ELSE << origin, destination >>

\* The legs of the route with the origin prepended, and the estimate of a
\* leg: the distances of its steps and the floors of their times
CompleteRoute == << dispatcher.origin >> \o dispatcher.stops
LegFails(ix) ==
    estimate_travelling_properties(CompleteRoute[ix], CompleteRoute[ix + 1],
                                   dispatcher.velocity, osrm).raised
LegSteps(ix) ==
    LET response == Response(osrm, CompleteRoute[ix], CompleteRoute[ix + 1])
    IN IF ~response.raised /\ response.status \in {200, 204}
       THEN response.steps
       ELSE << CompleteRoute[ix], CompleteRoute[ix + 1] >>

RECURSIVE StepsDistance(_, _)
StepsDistance(steps, i) ==
    IF i >= Len(steps) THEN 0
    ELSE Abs(steps[i] - steps[i + 1]) + StepsDistance(steps, i + 1)

RECURSIVE StepsTime(_, _)
StepsTime(steps, i) ==
    IF i >= Len(steps) THEN 0
    ELSE (Abs(steps[i] - steps[i + 1]) \div dispatcher.velocity) + StepsTime(steps, i + 1)

RECURSIVE LegsTotal(_)
LegsTotal(ix) ==
    IF ix >= Len(CompleteRoute) THEN [distance |-> 0, time |-> 0]
    ELSE LET rest == LegsTotal(ix + 1)
         IN IF LegFails(ix) THEN rest
            ELSE [distance |-> StepsDistance(LegSteps(ix), 1) + rest.distance,
                  time |-> StepsTime(LegSteps(ix), 1) + rest.time]

\* C14: estimate_route_properties returns the sum of the estimates of the
\* legs of the route with the origin prepended, the time of a leg being the
\* floor of distance / average_velocity; a leg whose estimation fails counts
\* zero and every other leg, before or after it, counts its estimate.
EstimateSumsEveryLeg ==
    dispatcher.estimated => dispatcher.estimate = LegsTotal(1)

(***************************************************************************)
(* The admission of orders (World._new_users_procedure of                  *)
(* src/actors/world.py and the demand management policies).  In this       *)
(* specification `dispatcher` holds the rows of the tick, the settings of  *)
(* the dispatcher, the users of the world and the calls made on them.      *)
(* Probabilities are in hundredths: random() is a draw of 0..99.           *)
(***************************************************************************)
MaxRows == 2

DemandPolicies == {"no", "yes"}
Radii == {0, 1}
SubstitutionProbs == {0, 50, 100}
Draws == {0, 49, 50, 99}

\* A row of the orders of a tick
OrderInfo(order_id, pick_up, drop_off) ==
    [order_id |-> order_id, pick_up |-> pick_up, pick_up2 |-> pick_up + 1, drop_off |-> drop_off]

OrdersInfos ==
    UNION { { [ix \in 1..n |-> OrderInfo(ix, pick[ix], drop[ix])] :
                pick \in [1..n -> 0..1], drop \in [1..n -> Places] } : n \in 1..MaxRows }

\* The policies with a slip: an order at the radius is turned away.
demand_management_policy_exclusive(policy, pick_up_at, drop_off_at, current_radius) ==
    IF policy = "no" THEN TRUE
    ELSE LET radius == haversine(pick_up_at, drop_off_at)
         IN IF radius >= current_radius THEN FALSE ELSE TRUE

\* NoDemandManagementPolicy.execute and YesDemandManagementPolicy.execute
demand_management_policy(policy, pick_up_at, drop_off_at, current_radius) ==
    IF policy = "no" THEN TRUE
    ELSE LET radius == haversine(pick_up_at, drop_off_at)
         IN IF radius > current_radius THEN FALSE ELSE TRUE

\* Dispatcher.evaluate_demand_management: the policy with current_radius
evaluate_demand_management(d, pick_up_at, drop_off_at) ==
    demand_management_policy(d.policy, pick_up_at, drop_off_at, d.current_radius)

\* User.submit_order_event and User.save_lost_order, as calls on the user
submit_order_event(d, order_info, pick_up_at) ==
    [d EXCEPT !.calls = Append(@, [call |-> "submit_order_event",
                                   order_id |-> order_info.order_id,
                                   pick_up_at |-> pick_up_at,
                                   drop_off_at |-> order_info.drop_off])]
save_lost_order(d, order_info, pick_up_at) ==
    [d EXCEPT !.calls = Append(@, [call |-> "save_lost_order",
                                   order_id |-> order_info.order_id,
                                   pick_up_at |-> pick_up_at,
                                   drop_off_at |-> order_info.drop_off])]

\* The body of the loop with a slip: the draw is compared with <=.
new_user_inclusive(d, order_info, draw) ==
    LET d1 == IF evaluate_demand_management(d, order_info.pick_up, order_info.drop_off)
              THEN submit_order_event(d, order_info, order_info.pick_up)
              ELSE IF draw <= d.substitution_prob
                   THEN submit_order_event(d, order_info, order_info.pick_up2)
                   ELSE save_lost_order(d, order_info, order_info.pick_up)
    IN [d1 EXCEPT !.users = Append(@, order_info.order_id)]

\* The body of the loop of _new_users_procedure for a row
new_user(d, order_info, draw) ==
    LET d1 == IF evaluate_demand_management(d, order_info.pick_up, order_info.drop_off)
              THEN submit_order_event(d, order_info, order_info.pick_up)
              ELSE IF draw < d.substitution_prob
                   THEN submit_order_event(d, order_info, order_info.pick_up2)
                   ELSE save_lost_order(d, order_info, order_info.pick_up)
    IN [d1 EXCEPT !.users = Append(@, order_info.order_id)]

\* _new_users_procedure: the loop over the rows
RECURSIVE new_users_procedure(_, _, _, _)
new_users_procedure(d, orders_info, draws, ix) ==
    IF ix > Len(orders_info) THEN d
    ELSE new_users_procedure(new_user(d, orders_info[ix], draws[ix]), orders_info, draws, ix + 1)

InitAdmission ==
    /\ now = 0
    /\ eid = 0
    /\ courier = << >>
    /\ \E orders_info \in OrdersInfos, policy \in DemandPolicies, radius \in Radii,
          prob \in SubstitutionProbs :
          dispatcher = [orders_info |-> orders_info, policy |-> policy,
                        current_radius |-> radius, substitution_prob |-> prob,
                        users |-> << >>, calls |-> << >>]
    /\ visited = {}
    /\ urgent = << >>
    /\ osrm = "ok"
    /\ ended = FALSE
    /\ crashed = FALSE

\* The world handles the rows of the tick.
NewUsers ==
    /\ ~ended
    /\ \E draws \in [1..Len(dispatcher.orders_info) -> Draws] :
          dispatcher' = new_users_procedure(dispatcher, dispatcher.orders_info, draws, 1)
    /\ ended' = TRUE
    /\ UNCHANGED << now, eid, courier, visited, urgent, osrm, crashed >>

NextAdmission == NewUsers

SpecAdmission == InitAdmission /\ [][NextAdmission]_vars

\* The calls made for an order and the users created for it
CallsOf(order_id) ==
    { k \in 1..Len(dispatcher.calls) : dispatcher.calls[k].order_id = order_id }
UsersOf(order_id) ==
    { k \in 1..Len(dispatcher.users) : dispatcher.users[k] = order_id }

\* The demand management admits a row: there is no policy, or the distance
\* from the pick-up to the drop-off is within the radius
Admitted(row) ==
    \/ dispatcher.policy = "no"
    \/ Abs(row.pick_up - row.drop_off) <= dispatcher.current_radius

\* C16: for every row one user is created and one call is made: for an
\* admitted row submit_order_event with the original pick-up; for a rejected
\* row submit_order_event with the alternate pick-up or save_lost_order, the
\* first always when substitution_prob is 1 and the second always when it is 0.
AdmissionRule ==
    ended =>
        \A ix \in 1..Len(dispatcher.orders_info) :
            LET row == dispatcher.orders_info[ix]
                calls == CallsOf(row.order_id)
            IN /\ Cardinality(UsersOf(row.order_id)) = 1
               /\ Cardinality(calls) = 1
               /\ \A k \in calls :
                     LET c == dispatcher.calls[k]
                         original == c.call = "submit_order_event" /\ c.pick_up_at = row.pick_up
                         alternate == c.call = "submit_order_event" /\ c.pick_up_at = row.pick_up2
                         lost == c.call = "save_lost_order"
                     IN IF Admitted(row) THEN original
                        ELSE /\ alternate \/ lost
                             /\ dispatcher.substitution_prob = 100 => alternate
                             /\ dispatcher.substitution_prob = 0 => lost

\* Of two rejected rows of a tick one was substituted and one was lost.
SubstitutedAndLost ==
    /\ ended
    /\ \E ix, jx \in 1..Len(dispatcher.orders_info) :
          /\ ~Admitted(dispatcher.orders_info[ix])
          /\ ~Admitted(dispatcher.orders_info[jx])
          /\ \E k \in CallsOf(dispatcher.orders_info[ix].order_id) :
                /\ dispatcher.calls[k].call = "submit_order_event"
                /\ dispatcher.calls[k].pick_up_at = dispatcher.orders_info[ix].pick_up2
          /\ \E k \in CallsOf(dispatcher.orders_info[jx].order_id) :
                dispatcher.calls[k].call = "save_lost_order"

(***************************************************************************)
(* The run with prepositioning: beside the matching, the dispatcher sends  *)
(* idle couriers to a location.                                            *)
(***************************************************************************)
MaxPrepositionings == 2

\* A prepositioning tick of the dispatcher: a courier of the idle registry
\* that it is not waiting for an answer from is notified of a destination.
Preposition(id, destination) ==
    /\ Settled
    /\ now <= MaxTime
    /\ dispatcher.registry[id] = "idle"
    /\ id \notin dispatcher.notified
    /\ Len(dispatcher.answers) < MaxNotifs
    /\ Len(SelectSeq(dispatcher.answers, LAMBDA a : a.type = "PREPOSITIONING"))
           < MaxPrepositionings
    /\ \E delay \in 0..MaxDelay :
          LET w == World(DeadProcess)
              n == Len(w.d.answers) + 1
          IN Set([w EXCEPT !.d.answers = Append(@, [accepted |-> 0, rejected |-> 0,
                                                    courier |-> id, sent |-> now,
                                                    type |-> "PREPOSITIONING"]),
                           !.d.notified = @ \cup {id},
                           !.u = Append(@, [Process(id, "notification") EXCEPT
                                               !.n = n, !.order = destination,
                                               !.delay = delay,
                                               !.type = "PREPOSITIONING"])])
    /\ UNCHANGED << now, osrm, ended >>

\* The run in which no order is placed
InitPreposition ==
    /\ now = 0
    /\ eid = 2 * Cardinality(CourierIds) + 1
    /\ \E off \in [CourierIds -> ShiftEnds] :
           courier = [id \in CourierIds |-> NewCourier(id, off[id])]
    /\ dispatcher = [unassigned |-> {},
                     notified |-> {},
                     registry |-> [id \in CourierIds |-> "idle"],
                     calls |-> [o \in OrderIds |-> << >>],
                     answers |-> << >>,
                     drop_off_time |-> [o \in OrderIds |-> NoTime],
                     cancellation_time |-> [o \in OrderIds |-> NoTime],
                     fulfilled_orders |-> {},
                     canceled_orders |-> {}]
    /\ visited = {}
    /\ urgent = << >>
    /\ osrm = "ok"
    /\ ended = FALSE
    /\ crashed = FALSE

NextPreposition ==
    \/ Start
    \/ AdvanceTime
    \/ \E id \in CourierIds : LogOffTimer(id)
    \/ \E id \in CourierIds : IdleStep(id)
    \/ \E id \in CourierIds : \E k \in 1..Len(courier[id].others) : OtherStep(id, k)
    \/ \E id \in CourierIds : \E k \in 1..Len(courier[id].execs) : RouteStep(id, k)
    \/ \E id \in CourierIds : Resolve(id)
    \/ post_process
    \/ \E id \in CourierIds : \E destination \in Locations : Preposition(id, destination)

SpecPreposition == InitPreposition /\ [][NextPreposition]_vars

\* A process of _execute_active_route is at a PREPOSITION stop
AtPreposition(p) == p.i <= Len(p.stops) /\ p.stops[p.i].type = "PREPOSITION"

\* The step ends the execution k of a route that is one PREPOSITION stop.
PrepositionRouteEnds(id, k) ==
    /\ Settled
    /\ IsNext(courier[id].execs[k].wake, courier[id].execs[k].seq)
    /\ Len(courier[id].execs[k].stops) = 1
    /\ AtPreposition(courier[id].execs[k])
    /\ courier[id].active_route = courier[id].execs[k].stops
    /\ courier'[id].execs = Remove(courier[id].execs, k)

\* C21: a PREPOSITION stop moves the courier to its location and is not
\* served: no execution of a route is picking up or dropping off at it, it is
\* not marked visited and no order is reported in store, picked up or dropped
\* off for it; when the execution of a route that is only a PREPOSITION stop
\* ends, the courier is at the stop, has no active route and no active stop,
\* and logs off if its log-off was deferred and starts an idle process
\* otherwise.
PrepositionOnlyMoves ==
    [][\A id \in CourierIds :
          /\ \A k \in 1..Len(courier'[id].execs) :
                 AtPreposition(courier'[id].execs[k]) => courier'[id].execs[k].pc = "moving"
          /\ \A stop \in visited' : stop.type # "PREPOSITION"
          /\ courier'[id].active_stop.type # "PREPOSITION"
          /\ (\E k \in 1..Len(courier[id].execs) : AtPreposition(courier[id].execs[k]))
                 => dispatcher'.calls = dispatcher.calls
          /\ \A k \in 1..Len(courier[id].execs) :
                 PrepositionRouteEnds(id, k) =>
                     /\ courier'[id].location = StopLocation(courier[id].execs[k].stops[1])
                     /\ courier'[id].active_route = NoRoute
                     /\ courier'[id].active_stop = NoStop
                     /\ IF courier[id].log_off_scheduled
                        THEN courier'[id].condition = "logged_off"
                        ELSE \E q \in 1..Len(urgent') :
                                 urgent'[q].id = id /\ urgent'[q].kind = "idle"]_vars

\* A courier accepted a prepositioning, moved to the other location and is
\* idle there with no route.
Prepositioned ==
    \E id \in CourierIds :
        /\ \E n \in 1..Len(dispatcher.answers) :
               /\ dispatcher.answers[n].type = "PREPOSITIONING"
               /\ dispatcher.answers[n].courier = id
               /\ dispatcher.answers[n].accepted = 1
        /\ courier[id].relocations = 0
        /\ courier[id].location # NewCourier(id, 3).location
        /\ courier[id].condition = "idle"
        /\ courier[id].active_route = NoRoute
        /\ courier[id].execs = << >>

(***************************************************************************)
(* The movement policy on its own                                          *)
(* (src/policies/courier/movement/osrm_dynamic.py): a move between every   *)
(* two places, at every velocity, in every state of the service, from the  *)
(* first and the last second of the hours of a day.  In this specification *)
(* `courier` is the courier that moves, `now` is env.now in seconds and    *)
(* `dispatcher` holds the position of execute.                             *)
(***************************************************************************)
\* OSRMDynamicMovementPolicy.speed_coeff, in hundredths
speed_coeff ==
    0 :> 100 @@ 1 :> 100 @@ 2 :> 100 @@ 3 :> 100 @@ 4 :> 100 @@ 5 :> 100 @@
    6 :> 100 @@ 7 :> 100 @@ 8 :> 100 @@ 9 :> 113 @@ 10 :> 104 @@ 11 :> 100 @@
    12 :> 91 @@ 13 :> 90 @@ 14 :> 93 @@ 15 :> 95 @@ 16 :> 102 @@ 17 :> 100 @@
    18 :> 91 @@ 19 :> 87 @@ 20 :> 88 @@ 21 :> 99 @@ 22 :> 123 @@ 23 :> 123

\* sec_to_time(seconds).hour, for a time of the day
sec_to_time_hour(seconds) == seconds \div 3600

\* The time of a leg with a slip: the coefficient slows the courier down where
\* it is to speed it up.
leg_time_divided(stop, next_stop, average_velocity, seconds) ==
    (haversine(stop, next_stop) * speed_coeff[sec_to_time_hour(seconds)])
        \div (100 * average_velocity)

\* velocity = average_velocity * speed_coeff[hour]; time = int(distance / velocity)
leg_time(stop, next_stop, average_velocity, seconds) ==
    (100 * haversine(stop, next_stop))
        \div (average_velocity * speed_coeff[sec_to_time_hour(seconds)])

\* The seconds a move starts at: the first and the last of an hour
StartTimes == { h * 3600 : h \in 0..23 } \cup { h * 3600 + 3599 : h \in 0..22 }

InitMovement ==
    /\ now \in StartTimes
    /\ eid = 0
    /\ \E origin \in Places, average_velocity \in Velocities :
          courier = [location |-> origin, average_velocity |-> average_velocity]
    /\ \E destination \in Places :
          dispatcher = [origin |-> courier.location, destination |-> destination,
                        started |-> now, pc |-> "start", path |-> << >>,
                        stop |-> courier.location, leg_start |-> now, wake |-> now,
                        legs |-> 0]
    /\ visited = {}
    /\ urgent = << >>
    /\ osrm \in RoutingStates
    /\ ended = FALSE
    /\ crashed = FALSE

\* The leg from route.stops[ix] to route.stops[ix + 1] begins: its time is
\* computed and the timeout is yielded.
BeginLeg(d, stops) ==
    [d EXCEPT !.pc = "leg", !.stop = stops[1], !.path = Tail(stops), !.leg_start = now,
              !.wake = now + leg_time(stops[1], stops[2], courier.average_velocity, now),
              !.legs = @ + 1]

\* execute up to its first timeout: a None route raises at route.stops.
Execute ==
    /\ dispatcher.pc = "start"
    /\ LET origin == dispatcher.origin
           destination == dispatcher.destination
           route == get_route(origin, destination, Response(osrm, origin, destination))
       IN IF route.is_none
          THEN /\ crashed' = TRUE
               /\ dispatcher' = [dispatcher EXCEPT !.pc = "done"]
          ELSE /\ crashed' = crashed
               /\ dispatcher' = BeginLeg(dispatcher, route.stops)
    /\ UNCHANGED << now, eid, courier, visited, urgent, osrm, ended >>

\* The clock runs during the timeout of a leg.
Tick ==
    /\ dispatcher.pc = "leg"
    /\ now < dispatcher.wake
    /\ now' = now + 1
    /\ UNCHANGED << eid, courier, dispatcher, visited, urgent, osrm, ended, crashed >>

\* The timeout of a leg elapsed: courier.location = next_stop.location, and
\* the next leg begins when there is one.
EndLeg ==
    /\ dispatcher.pc = "leg"
    /\ now = dispatcher.wake
    /\ courier' = [courier EXCEPT !.location = Head(dispatcher.path)]
    /\ dispatcher' = IF Len(dispatcher.path) > 1
                     THEN BeginLeg(dispatcher, dispatcher.path)
                     ELSE [dispatcher EXCEPT !.pc = "done", !.path = << >>]
    /\ UNCHANGED << now, eid, visited, urgent, osrm, ended, crashed >>

NextMovement == Execute \/ Tick \/ EndLeg

SpecMovement == InitMovement /\ [][NextMovement]_vars

\* A leg begins in the step
LegBegins == dispatcher'.pc = "leg" /\ dispatcher'.legs # dispatcher.legs

\* C22: the table of coefficients is defined on the hours 0 to 23 with every
\* value between 0.87 and 1.23, and the hour of every instant of a move is in
\* it; the time of a leg is the floor of distance / (average_velocity *
\* speed_coeff[h]) for the hour h the leg begins in; the location of the
\* courier changes only when the timeout of a leg has elapsed, and then to the
\* stop the leg ends at.
DynamicLegTimes ==
    [][/\ DOMAIN speed_coeff = 0..23
       /\ \A h \in DOMAIN speed_coeff : 87 <= speed_coeff[h] /\ speed_coeff[h] <= 123
       /\ sec_to_time_hour(now) \in DOMAIN speed_coeff
       /\ LegBegins =>
             LET time == dispatcher'.wake - now
                 distance == haversine(dispatcher'.stop, Head(dispatcher'.path))
                 velocity == courier.average_velocity * speed_coeff[now \div 3600]
             IN /\ time >= 0
                /\ time * velocity <= 100 * distance
                /\ 100 * distance < (time + 1) * velocity
       /\ (dispatcher.pc = "leg" /\ now < dispatcher.wake) =>
             courier'.location = dispatcher.stop
       /\ courier'.location # courier.location =>
             /\ dispatcher.pc = "leg"
             /\ now = dispatcher.leg_start
                       + leg_time(dispatcher.stop, Head(dispatcher.path),
                                  courier.average_velocity, dispatcher.leg_start)
             /\ courier'.location = Head(dispatcher.path)]_vars

\* A move of two legs ended at its destination in the hour after the one it
\* started in, and the two legs did not take the same time.
MovedAcrossHours ==
    /\ dispatcher.pc = "done"
    /\ ~crashed
    /\ dispatcher.legs = 2
    /\ courier.location = dispatcher.destination
    /\ sec_to_time_hour(now) # sec_to_time_hour(dispatcher.started)
    /\ now - dispatcher.started = 1

(***************************************************************************)
(* Further properties of the courier and of the run                        *)
(***************************************************************************)
\* The reports of a kind made for an order
Reports(o, call) == { i \in 1..Len(dispatcher.calls[o]) : dispatcher.calls[o][i] = call }

\* C23: every stop of a route is served once: for each order the pick-up
\* state is entered once (one report of the order in store), and the order
\* is reported picked up at most once and dropped off at most once.
StopsServedOnce ==
    \A o \in OrderIds :
        \A call \in {"in_store", "picked_up", "dropped_off"} :
            Cardinality(Reports(o, call)) <= 1

\* C24: every notification the greedy policy returns is for a courier of the
\* list given that is idle and has no active route.
NotifiedCouriersAreIdle ==
    \A k \in 1..Len(dispatcher.notifications) :
        /\ dispatcher.notifications[k].courier.condition = "idle"
        /\ dispatcher.notifications[k].courier.active_route = NoRoute

\* C25: the condition of a courier that is logged off does not change any
\* more, and the dispatcher is not told that the courier is idle, moving,
\* picking up or dropping off: its registry of the courier stays as it is.
LoggedOffIsAbsorbing ==
    [][\A id \in CourierIds :
          courier[id].condition = "logged_off" =>
              /\ courier'[id].condition = "logged_off"
              /\ dispatcher'.registry[id] = dispatcher.registry[id]]_vars

\* The state processes of a courier that are alive: its idle loop, the
\* relocations that go on without an idle loop, its route executions
LiveProcesses(id) ==
    (IF courier[id].state.pc # "dead" THEN 1 ELSE 0)
        + Len(courier[id].others) + Len(courier[id].execs)

\* C26: a courier has at most one state process alive, an idle loop with its
\* relocation or one route execution, and an idle courier has no route
\* execution.
OneLiveStateProcess ==
    \A id \in CourierIds :
        /\ LiveProcesses(id) <= 1
        /\ courier[id].condition = "idle" => courier[id].execs = << >>

(***************************************************************************)
(* The demand management policies on their own: each policy on every       *)
(* pick-up, every drop-off and every radius up to MaxRadius.  In this      *)
(* specification `dispatcher` holds the policy, its arguments and what it  *)
(* returned.                                                               *)
(***************************************************************************)
MaxRadius == 3

InitDemand ==
    /\ now = 0
    /\ eid = 0
    /\ courier = << >>
    /\ \E policy \in DemandPolicies, pick_up_at \in Places, drop_off_at \in Places,
          current_radius \in 0..MaxRadius :
          dispatcher = [policy |-> policy, pick_up_at |-> pick_up_at,
                        drop_off_at |-> drop_off_at, current_radius |-> current_radius,
                        executed |-> FALSE, returned |-> FALSE]
    /\ visited = {}
    /\ urgent = << >>
    /\ osrm = "ok"
    /\ ended = FALSE
    /\ crashed = FALSE

\* A call of execute of the policy
ExecutePolicy ==
    /\ ~dispatcher.executed
    /\ dispatcher' = [dispatcher EXCEPT
          !.executed = TRUE,
          !.returned = demand_management_policy(dispatcher.policy, dispatcher.pick_up_at,
                                                dispatcher.drop_off_at,
                                                dispatcher.current_radius)]
    /\ UNCHANGED << now, eid, courier, visited, urgent, osrm, ended, crashed >>

NextDemand == ExecutePolicy

SpecDemand == InitDemand /\ [][NextDemand]_vars

\* C27: the policy with demand management returns false when the distance
\* from the pick-up to the drop-off is greater than the radius and true
\* otherwise, at the radius too; the policy without returns true; a call
\* leaves the arguments and everything else as they were.
DemandPolicyRule ==
    [][/\ dispatcher'.executed
       /\ dispatcher'.returned =
              IF dispatcher.policy = "yes"
              THEN ~(Abs(dispatcher.pick_up_at - dispatcher.drop_off_at)
                        > dispatcher.current_radius)
              ELSE TRUE
       /\ dispatcher' = [dispatcher EXCEPT !.executed = dispatcher'.executed,
                                           !.returned = dispatcher'.returned]
       /\ UNCHANGED << now, eid, courier, visited, urgent, osrm, ended, crashed >>]_vars

\* The policy with demand management admitted an order at the radius, one
\* that is not at distance 0.
AdmittedAtTheRadius ==
    /\ dispatcher.executed
    /\ dispatcher.policy = "yes"
    /\ dispatcher.current_radius > 0
    /\ Abs(dispatcher.pick_up_at - dispatcher.drop_off_at) = dispatcher.current_radius
    /\ dispatcher.returned

\* The delay of the log-off timer of a courier: time_diff(off_time, on_time)
LogOffDelay(id) == courier[id].off_time - courier[id].on_time

\* C28: a courier is constructed idle and reported idle, with one log-off
\* timer set to off_time - on_time after the construction; the timer is
\* never set to another time, time does not pass it while it has not fired,
\* it fires at that time and once, and when it fires log_off_event runs: the
\* courier logs off with its earnings computed, or the log-off is deferred
\* for a courier that has work.
LogOffTimerOnce ==
    /\ \A id \in CourierIds :
           /\ courier[id].condition = "idle"
           /\ dispatcher.registry[id] = "idle"
           /\ ~courier[id].timer_fired
           /\ courier[id].log_off_at = now + LogOffDelay(id)
    /\ [][\A id \in CourierIds :
             /\ courier'[id].log_off_at = courier[id].log_off_at
             /\ courier'[id].log_off_seq = courier[id].log_off_seq
             /\ courier[id].timer_fired => courier'[id].timer_fired
             /\ ~courier'[id].timer_fired => now' <= courier[id].on_time + LogOffDelay(id)
             /\ TimerFires(id) =>
                   /\ now = courier[id].on_time + LogOffDelay(id)
                   /\ IF HasWork(id)
                      THEN /\ courier'[id].log_off_scheduled
                           /\ courier'[id].condition = courier[id].condition
                           /\ courier'[id].earnings_runs = courier[id].earnings_runs
                      ELSE /\ courier'[id].condition = "logged_off"
                           /\ courier'[id].earnings_runs = courier[id].earnings_runs + 1]_vars

\* The timer of a courier fired at the end of its shift and logged it off,
\* and the timer of another deferred the log-off of a courier with a route.
TimersFired ==
    /\ \E id \in CourierIds :
           /\ courier[id].timer_fired
           /\ now = courier[id].on_time + LogOffDelay(id)
           /\ courier[id].condition = "logged_off"
           /\ courier[id].earnings_runs = 1
    /\ \E id \in CourierIds :
           /\ courier[id].timer_fired
           /\ courier[id].log_off_scheduled
           /\ courier[id].condition # "logged_off"

(***************************************************************************)
(* The creation of the couriers on its own (World._new_couriers_procedure  *)
(* and the fields of Courier): the procedure is called up to MaxBatches    *)
(* times with the rows of up to MaxRows couriers.  In this specification   *)
(* `courier` is World.couriers and `dispatcher` holds the default of the   *)
(* class Courier for acceptance_rate and the number of calls made.         *)
(***************************************************************************)
MaxBatches == 2

\* settings.COURIER_MIN_ACCEPTANCE_RATE, in hundredths
COURIER_MIN_ACCEPTANCE_RATE == 40

\* The values random.uniform(settings.COURIER_MIN_ACCEPTANCE_RATE, 1) draws
Rates == { COURIER_MIN_ACCEPTANCE_RATE, 60, 80, 100 }

\* The field with a slip: the rate is drawn for each courier that is made.
acceptance_rate_drawn(class_default, draw) == draw

\* acceptance_rate: float = random.uniform(...): the default of the field is
\* the value drawn when the class was defined, whatever a draw made at the
\* construction would give.
acceptance_rate(class_default, draw) == class_default

\* Courier(...) as _new_couriers_procedure calls it, with no acceptance_rate
new_courier(courier_info, class_default, draw) ==
    [courier_id |-> courier_info.courier_id,
     location |-> courier_info.on_location,
     on_time |-> courier_info.on_time,
     off_time |-> courier_info.off_time,
     acceptance_rate |-> acceptance_rate(class_default, draw),
     condition |-> "idle",
     log_off_at |-> now + (courier_info.off_time - courier_info.on_time)]

\* _new_couriers_procedure: the loop over the rows
RECURSIVE new_couriers_procedure(_, _, _, _, _)
new_couriers_procedure(couriers, couriers_info, class_default, draws, ix) ==
    IF ix > Len(couriers_info) THEN couriers
    ELSE new_couriers_procedure(
             Append(couriers, new_courier(couriers_info[ix], class_default, draws[ix])),
             couriers_info, class_default, draws, ix + 1)

InitLogOn ==
    /\ now = 0
    /\ eid = 0
    /\ courier = << >>
    /\ \E class_default \in Rates :
          dispatcher = [acceptance_rate |-> class_default, calls |-> 0]
    /\ visited = {}
    /\ urgent = << >>
    /\ osrm = "ok"
    /\ ended = FALSE
    /\ crashed = FALSE

\* The World finds the rows of the couriers that log on now and creates them.
NewCouriers ==
    /\ dispatcher.calls < MaxBatches
    /\ \E n \in 1..MaxRows :
          \E off \in [1..n -> ShiftEnds], draws \in [1..n -> Rates] :
             LET couriers_info ==
                     [ix \in 1..n |-> [courier_id |-> Len(courier) + ix,
                                       on_location |-> 0,
                                       on_time |-> now,
                                       off_time |-> now + off[ix]]]
             IN courier' = new_couriers_procedure(courier, couriers_info,
                                                  dispatcher.acceptance_rate, draws, 1)
    /\ dispatcher' = [dispatcher EXCEPT !.calls = @ + 1]
    /\ now' = now + 1
    /\ UNCHANGED << eid, visited, urgent, osrm, ended, crashed >>

NextLogOn == NewCouriers

SpecLogOn == InitLogOn /\ [][NextLogOn]_vars

\* C29: the couriers the World created all have the acceptance rate that is
\* the default of the class, drawn once, whichever call created them.
OneAcceptanceRate ==
    /\ \A i, j \in 1..Len(courier) : courier[i].acceptance_rate = courier[j].acceptance_rate
    /\ \A i \in 1..Len(courier) : courier[i].acceptance_rate = dispatcher.acceptance_rate

\* Two calls of the procedure created couriers, the second call more than one.
CouriersOfTwoCalls ==
    /\ dispatcher.calls = 2
    /\ \E i, j \in 1..Len(courier) :
           /\ i # j
           /\ courier[i].on_time = 0
           /\ courier[j].on_time = 1
           /\ \E k \in 1..Len(courier) : k # j /\ courier[k].on_time = 1
====
